---------------------------- MODULE Spec2Model ----------------------------
(***************************************************************************)
(* Model of the artifact-caching compiler of alkanes-compiler-service:     *)
(* stableHash, the build-lock registry (withBuildLock), the concurrency-2  *)
(* queue around compileContract, and AlkanesCompiler.compile with its      *)
(* workspace, toolchain target directory and artifact cache files.         *)
(*                                                                         *)
(* One action is one continuation of the event loop: the effect of the     *)
(* file-system or subprocess operation that was awaited, followed by the   *)
(* synchronous code up to the next await.  Promise reactions that run in   *)
(* the same microtask checkpoint (settling a build, waking the callers     *)
(* attached to it, p-queue starting the next job) are one step.            *)
(*                                                                         *)
(* The two revisions of src/src/compiler.ts and the pooled server of       *)
(* src/server.js follow, each with a specification of its own.             *)
(***************************************************************************)
EXTENDS Integers, Sequences, FiniteSets, TLC

(***************************************************************************)
(* Bounds of the model.                                                    *)
(***************************************************************************)
\* number of compileContract calls made in one behaviour
MaxCalls == 3
\* how many keys may already have a record in the durable cache at start
MaxPreloaded == 1
\* longest text given to stableHash on its own
MaxSourceLen == 5
\* how many whitespace variations are applied to one text
MaxEdits == 2
\* longest text given to parseABI on its own
MaxAbiLen == 5
\* number of POST /compile requests the pooled server receives
MaxRequests == 2
\* how many project ids the pooled server draws in one behaviour
MaxProjects == 7

(***************************************************************************)
(* Characters and source texts.                                            *)
(***************************************************************************)
LF == "\n"
CR == "\r"
TAB == "\t"
SP == " "

\* the source texts submitted by callers
Sources == { <<"a", LF>>, <<"b">>, <<"c", SP>> }

(***************************************************************************)
(* stableHash: the four replacements applied before digesting.             *)
(***************************************************************************)
\* .replace(/\r\n/g, "\n")
RECURSIVE ReplaceCRLF(_)
ReplaceCRLF(s) ==
  IF s = <<>> THEN <<>>
  ELSE IF Len(s) >= 2 /\ s[1] = CR /\ s[2] = LF
       THEN <<LF>> \o ReplaceCRLF(SubSeq(s, 3, Len(s)))
       ELSE <<s[1]>> \o ReplaceCRLF(Tail(s))

\* first index >= i that is past the run of spaces/tabs starting at i
RECURSIVE RunEnd(_, _)
RunEnd(s, i) ==
  IF i > Len(s) \/ s[i] \notin {SP, TAB} THEN i ELSE RunEnd(s, i + 1)

\* .replace(/[ \t]+$/gm, ""): with the m flag $ matches at the end of the
\* input and before a line terminator (LF or CR)
RECURSIVE StripFrom(_, _)
StripFrom(s, i) ==
  IF i > Len(s) THEN <<>>
  ELSE IF s[i] \in {SP, TAB}
       THEN LET j == RunEnd(s, i) IN
            IF j > Len(s) \/ s[j] \in {LF, CR}
            THEN StripFrom(s, j)
            ELSE SubSeq(s, i, j - 1) \o StripFrom(s, j)
       ELSE <<s[i]>> \o StripFrom(s, i + 1)

\* the second replacement left out
StripTrailingMutant(s) == s
StripTrailing(s) == StripFrom(s, 1)

\* .replace(/\n{2,}/g, "\n")
RECURSIVE CollapseNewlines(_)
CollapseNewlines(s) ==
  IF s = <<>> THEN <<>>
  ELSE IF Len(s) >= 2 /\ s[1] = LF /\ s[2] = LF
       THEN CollapseNewlines(Tail(s))
       ELSE <<s[1]>> \o CollapseNewlines(Tail(s))

\* String.prototype.trim: white space and line terminators at both ends
WhiteSpace == {SP, TAB, LF, CR}

RECURSIVE TrimStart(_)
TrimStart(s) ==
  IF s # <<>> /\ s[1] \in WhiteSpace THEN TrimStart(Tail(s)) ELSE s

RECURSIVE TrimEnd(_)
TrimEnd(s) ==
  IF s # <<>> /\ s[Len(s)] \in WhiteSpace
  THEN TrimEnd(SubSeq(s, 1, Len(s) - 1)) ELSE s

Trim(s) == TrimEnd(TrimStart(s))

normalized(s) == Trim(CollapseNewlines(StripTrailing(ReplaceCRLF(s))))

\* sha256(normalized).hex.slice(0, 12): the digest is taken to be collision
\* free on the texts of the model, so the key is the digested text, tagged
stableHash(s) == <<"sha256">> \o normalized(s)

Keys == { stableHash(s) : s \in Sources }


(***************************************************************************)
(* Values.                                                                 *)
(***************************************************************************)
Callers == 1..MaxCalls

\* new PQueue({ concurrency: 2 })
Concurrency == 2

\* options?.cleanup ?? true; compileContract passes no cleanup option
cleanupAfter == TRUE

NoFile == [exists |-> FALSE, data |-> <<>>]
File(d) == [exists |-> TRUE, data |-> d]

\* fileExists(p): fs.access(p) succeeds
fileExistsMutant(f) == FALSE
fileExists(f) == f.exists

(***************************************************************************)
(* parseABI.  A text is a sequence of symbols: single characters and the   *)
(* words and markers below, each standing for the characters it spells.    *)
(***************************************************************************)
OpcodeMarkers == {"#[opcode(1)]", "#[opcode(2)]"}

\* parseInt(opcodeStr, 10)
OpcodeOf(x) == IF x = "#[opcode(1)]" THEN 1 ELSE 2

\* StoragePointer::from_keyword("k")
StorageMarker == "StoragePointer::from_keyword(k)"

\* \s
IsSpace(x) == x \in WhiteSpace

\* a symbol spelled with the characters of [A-Za-z0-9_] only
IsWord(x) == ~IsSpace(x) /\ x \notin OpcodeMarkers /\ x # StorageMarker

\* a symbol that begins with a character of [A-Za-z_]
StartsWord(x) == IsWord(x) \/ x = StorageMarker

\* \s*: the first index >= i that holds no white space
RECURSIVE SkipSpace(_, _)
SkipSpace(t, i) ==
  IF i <= Len(t) /\ IsSpace(t[i]) THEN SkipSpace(t, i + 1) ELSE i

\* [A-Za-z_][A-Za-z0-9_]* and \w+ from index i, as the symbols it spans; of
\* the storage marker it takes the leading StoragePointer and stops
RECURSIVE WordRun(_, _)
WordRun(t, i) ==
  IF i > Len(t) \/ ~StartsWord(t[i]) THEN <<>>
  ELSE IF t[i] = StorageMarker THEN <<"StoragePointer">>
  ELSE <<t[i]>> \o WordRun(t, i + 1)

\* the first index past the word that starts at i
RECURSIVE WordEnd(_, _)
WordEnd(t, i) ==
  IF i > Len(t) \/ ~StartsWord(t[i]) THEN i
  ELSE IF t[i] = StorageMarker THEN i + 1
  ELSE WordEnd(t, i + 1)

\* while ((match = messageRegex.exec(sourceCode)) !== null) methods.push(...):
\* #[opcode(n)], white space, a name; the texts of the model hold no returns
\* marker and no braces, so outputs and inputs are empty
RECURSIVE MethodsFrom(_, _)
MethodsFrom(t, i) ==
  IF i > Len(t) THEN <<>>
  ELSE IF t[i] \in OpcodeMarkers
  THEN LET j == SkipSpace(t, i + 1) IN
       IF j <= Len(t) /\ StartsWord(t[j])
       THEN <<[opcode |-> OpcodeOf(t[i]), name |-> WordRun(t, j),
               inputs |-> <<>>, outputs |-> <<>>]>>
            \o MethodsFrom(t, SkipSpace(t, WordEnd(t, j)))
       ELSE MethodsFrom(t, i + 1)
  ELSE MethodsFrom(t, i + 1)

Methods(t) == MethodsFrom(t, 1)

\* opcodes[variantName] = opcodeNum for each method in turn: a later method
\* of the same name replaces the number; opcodes is a plain object, on which
\* the assignment of a number to __proto__ does nothing
Opcodes(ms) ==
  [n \in { ms[i].name : i \in 1..Len(ms) } \ {<<"__proto__">>} |->
     LET last == CHOOSE i \in 1..Len(ms) :
                   /\ ms[i].name = n
                   /\ \A j \in (i + 1)..Len(ms) : ms[j].name # n
     IN ms[last].opcode]

\* structRegex: pub, white space, struct, white space, a word
RECURSIVE StructNamesFrom(_, _)
StructNamesFrom(t, i) ==
  IF i > Len(t) THEN <<>>
  ELSE IF t[i] = "pub"
  THEN LET j == SkipSpace(t, i + 1) IN
       IF j > i + 1 /\ j <= Len(t) /\ t[j] = "struct"
       THEN LET k == SkipSpace(t, j + 1) IN
            IF k > j + 1 /\ k <= Len(t) /\ StartsWord(t[k])
            THEN <<WordRun(t, k)>> \o StructNamesFrom(t, WordEnd(t, k))
            ELSE StructNamesFrom(t, i + 1)
       ELSE StructNamesFrom(t, i + 1)
  ELSE StructNamesFrom(t, i + 1)

\* structNames.length > 0 ? structNames[0] : "UnknownContract"
ContractNameMutant(t) ==
  LET names == StructNamesFrom(t, 1) IN
  IF names # <<>> THEN names[1] ELSE <<>>
ContractName(t) ==
  LET names == StructNamesFrom(t, 1) IN
  IF names # <<>> THEN names[1] ELSE <<"UnknownContract">>

\* storageRegex: one entry for each storage marker
RECURSIVE StorageFrom(_, _)
StorageFrom(t, i) ==
  IF i > Len(t) THEN <<>>
  ELSE IF t[i] = StorageMarker
  THEN <<[key |-> "k", type |-> "Vec<u8>"]>> \o StorageFrom(t, i + 1)
  ELSE StorageFrom(t, i + 1)

Storage(t) == StorageFrom(t, 1)

\* { name, version: "1.0.0", methods, storage, opcodes }
AbiDescription(name, methods, storage, opcodes) ==
  <<name, "1.0.0", methods, storage, opcodes>>

AbiName(abi) == abi[1]
AbiMethods(abi) == abi[3]
AbiStorage(abi) == abi[4]
AbiOpcodes(abi) == abi[5]

parseABI(s) ==
  AbiDescription(ContractName(s), Methods(s), Storage(s), Opcodes(Methods(s)))

\* JSON.parse(JSON.stringify(abi, null, 2)) of a description made of strings,
\* numbers, arrays and plain objects; an empty file is a SyntaxError
JsonOk(d) == d # <<>>

\* what cargo leaves at <targetDir>/wasm32-unknown-unknown/release/ for the
\* lib.rs it compiled
CargoOutput(lib) == <<"wasm">> \o lib

\* the codes cargo may close with
ExitCodes == {0, 1}

\* reject(new Error(`Cargo build failed with code ${code}`))
CargoFailedMsg(code) == <<"Cargo build failed with code ", ToString(code)>>
NoOutputMsg == <<"ENOENT: no such file or directory, open ", "wasmPath">>
NoAbiMsg == <<"ENOENT: no such file or directory, open ", "abiOut">>
WasmWriteMsg == <<"EIO: i/o error, write ", "wasmOut">>
AbiWriteMsg == <<"EIO: i/o error, write ", "abiOut">>
JsonMsg == <<"SyntaxError: Unexpected end of JSON input">>

NoResult == [status |-> "none", wasm |-> <<>>, abi |-> <<>>, msg |-> <<>>]
Success(w, a) == [status |-> "ok", wasm |-> w, abi |-> a, msg |-> <<>>]
\* the rejection of fn, as every awaiter of the lock's promise receives it
Failure(m) == [status |-> "fail", wasm |-> <<>>, abi |-> <<>>, msg |-> m]
\* compileContract: throw new Error(`Compilation failed: ${err?.message}`)
Rethrow(r) ==
  IF r.status = "fail"
  THEN [r EXCEPT !.msg = <<"Compilation failed: ">> \o r.msg]
  ELSE r

Min(a, b) == IF a < b THEN a ELSE b

(***************************************************************************)
(* State.                                                                  *)
(***************************************************************************)
VARIABLES
  pc,          \* where each compileContract call stands
  src,         \* the code argument of each call
  fifo,        \* p-queue's queue of jobs not yet started
  pending,     \* p-queue's count of running jobs
  buildLocks,  \* key -> the call whose fn() promise is registered, 0 if none
  waitOn,      \* the call whose promise an attached call awaits
  wasmFile,    \* ARTIFACTS_DIR/<hash>.wasm
  abiFile,     \* ARTIFACTS_DIR/<hash>.abi.json
  workspace,   \* BASE_DIR/build_<hash>: the directory and its src/lib.rs
  targetOut,   \* CARGO_TARGET_ROOT/build_<hash>/.../<crateName>.wasm
  wasmBuffer,  \* compile's local wasmBuffer
  result,      \* what compileContract returned or threw
  path,        \* which branch of compile the call took
  cargoRuns,   \* cargo processes spawned by the call
  hist,        \* observations kept for the properties
  fnCall,      \* the call of stableHash or parseABI examined on its own
  cacheTarget, \* compiler.ts: CARGO_CACHE_DIR/.../alkanes_contract.wasm
  tryOutcome,  \* compiler.ts: how compile's try block ended, for its finally
  projectPool, \* server.js: the Set of pooled project paths, oldest first
  creating,    \* server.js: createProjectDir calls that have not returned
  projectId,   \* server.js: how many project ids have been drawn
  projectDirs, \* server.js: the project directories that exist under /tmp
  reqPc,       \* server.js: where each POST /compile request stands
  projectPath  \* server.js: the handler's local projectPath

vars == <<pc, src, fifo, pending, buildLocks, waitOn, wasmFile, abiFile,
          workspace, targetOut, wasmBuffer, result, path, cargoRuns, hist,
          fnCall, cacheTarget, tryOutcome, projectPool, creating, projectId,
          projectDirs, reqPc, projectPath>>

\* the variables of the compiler
compilerVars == <<pc, src, fifo, pending, buildLocks, waitOn, wasmFile, abiFile,
                  workspace, targetOut, wasmBuffer, result, path, cargoRuns,
                  hist>>

fsVars == <<wasmFile, abiFile, workspace, targetOut>>

\* the variables only the revisions of src/src/compiler.ts use
revisionVars == <<cacheTarget, tryOutcome>>

\* the variables of the pooled server
serverVars == <<projectPool, creating, projectId, projectDirs, reqPc,
                projectPath>>

\* stableHash of every text a call may carry, computed once
hashOf == [s \in Sources \cup {<<>>} |-> stableHash(s)]

\* the contractName argument of call c, where the calls are given names
contractName(c) == fnCall.contractName[c]

\* a hash taken over the name as well as the source
keyMutant(c) ==
  IF contractName(c) = "A" THEN hashOf[src[c]]
  ELSE CHOOSE k \in Keys : k # hashOf[src[c]]

\* const { dir: tempDir, hash } = await this.getBuildDir(sourceCode)
key(c) == hashOf[src[c]]

\* compile's local abi where it is computed from the call's own source
abiOf(c) == parseABI(src[c])

NoDir == [dir |-> FALSE, lib |-> <<>>]

\* the records the durable artifact cache may hold when the process starts
Preloads == { P \in SUBSET Keys : Cardinality(P) <= MaxPreloaded }

\* a record committed by an earlier run for key k (from the text whose key
\* it is: the digested text itself)
PreloadedWasm(k) == File(CargoOutput(Tail(k)))
PreloadedAbi(k) == File(parseABI(Tail(k)))

InitCompiler ==
  /\ pc = [c \in Callers |-> "idle"]
  /\ src = [c \in Callers |-> <<>>]
  /\ fifo = <<>>
  /\ pending = 0
  /\ buildLocks = [k \in Keys |-> 0]
  /\ waitOn = [c \in Callers |-> 0]
  /\ \E P \in Preloads :
       /\ wasmFile = [k \in Keys |-> IF k \in P THEN PreloadedWasm(k) ELSE NoFile]
       /\ abiFile = [k \in Keys |-> IF k \in P THEN PreloadedAbi(k) ELSE NoFile]
       /\ hist = [preloaded |-> P,
                  priorDone |-> [c \in Callers |-> {}],
                  waited |-> [c \in Callers |-> FALSE],
                  lastBuilder |-> [k \in Keys |-> 0],
                  toolFailed |-> {},
                  ioFailed |-> {}]
  /\ workspace = [k \in Keys |-> NoDir]
  /\ targetOut = [k \in Keys |-> NoFile]
  /\ wasmBuffer = [c \in Callers |-> <<>>]
  /\ result = [c \in Callers |-> NoResult]
  /\ path = [c \in Callers |-> "none"]
  /\ cargoRuns = [c \in Callers |-> 0]
  /\ cacheTarget = NoFile
  /\ tryOutcome = [c \in Callers |-> NoResult]

\* no function is examined on its own while the compiler runs
NoCall == [fn |-> "none"]

\* the pooled server is not running
NoServer ==
  /\ projectPool = <<>>
  /\ creating = {}
  /\ projectId = 0
  /\ projectDirs = {}
  /\ reqPc = <<>>
  /\ projectPath = <<>>

Init == InitCompiler /\ fnCall = NoCall /\ NoServer

(***************************************************************************)
(* p-queue.                                                                *)
(***************************************************************************)
\* #doesConcurrentAllowAnother: pending < concurrency
CanStartMutant == TRUE
CanStartInverted == pending > Concurrency
CanStart == pending < Concurrency

\* compileContract(contractName, code): queue.add(job).  The job starts in
\* the same step when a slot is free; its first await is getBuildDir's mkdir.
Call(c) ==
  /\ pc[c] = "idle"
  \* calls are numbered in the order they are made
  /\ IF c = 1 THEN TRUE ELSE pc[c - 1] # "idle"
  /\ \E s \in Sources :
       /\ src' = [src EXCEPT ![c] = s]
       /\ hist' = [hist EXCEPT
            !.priorDone[c] = { d \in Callers : pc[d] = "done" /\ key(d) = hashOf[s] },
            !.waited[c] = ~CanStart]
  /\ IF CanStart
     THEN /\ pc' = [pc EXCEPT ![c] = "getBuildDir"]
          /\ pending' = pending + 1
          /\ fifo' = fifo
     ELSE /\ pc' = [pc EXCEPT ![c] = "queued"]
          /\ fifo' = Append(fifo, c)
          /\ pending' = pending
  /\ UNCHANGED <<buildLocks, waitOn, fsVars, wasmBuffer, result, path, cargoRuns>>
  /\ UNCHANGED <<fnCall, revisionVars, serverVars>>

\* The jobs of the calls in F end with result r (already rethrown by
\* compileContract): each #next() frees its slot and starts the job at the
\* head of the queue.
Finish(F, r) ==
  LET n == Min(Cardinality(F), Len(fifo))
      started == { fifo[i] : i \in 1..n }
  IN /\ pc' = [x \in Callers |->
                 IF x \in F THEN "done"
                 ELSE IF x \in started THEN "getBuildDir" ELSE pc[x]]
     /\ fifo' = SubSeq(fifo, n + 1, Len(fifo))
     /\ pending' = pending - Cardinality(F) + n
     /\ result' = [x \in Callers |-> IF x \in F THEN Rethrow(r) ELSE result[x]]

(***************************************************************************)
(* withBuildLock.                                                          *)
(***************************************************************************)
\* the calls that receive the outcome of the promise registered by b
AwaitersMutant(b) == {b}
Awaiters(b) == {b} \cup { a \in Callers : pc[a] = "attached" /\ waitOn[a] = b }

\* .then in place of .finally: the entry of a build that failed stays
SettleMutant(b, r) ==
  /\ buildLocks' = IF r.status = "fail" THEN buildLocks
                   ELSE [buildLocks EXCEPT ![key(b)] = 0]
  /\ Finish(Awaiters(b), r)

\* fn() of builder b settles with r: .finally deletes the entry, then the
\* builder and every call awaiting buildLocks.get(hash) continue
Settle(b, r) ==
  /\ buildLocks' = [buildLocks EXCEPT ![key(b)] = 0]
  /\ Finish(Awaiters(b), r)


(***************************************************************************)
(* AlkanesCompiler.compile.                                                *)
(***************************************************************************)
\* the toolchain invocation of call c failed / a cache write of call c failed
ToolFault(c) == [hist EXCEPT !.toolFailed = @ \cup {c}]
IoFault(c) == [hist EXCEPT !.ioFailed = @ \cup {c}]

\* getBuildDir: ensureDir(build_<hash>) has run; ensureDir(ARTIFACTS_DIR)
\* changes nothing the model keeps; fileExists(wasmOut) is issued
GetBuildDir(c) ==
  /\ pc[c] = "getBuildDir"
  /\ workspace' = [workspace EXCEPT ![key(c)].dir = TRUE]
  /\ pc' = [pc EXCEPT ![c] = "lookup"]
  /\ UNCHANGED <<src, fifo, pending, buildLocks, waitOn, wasmFile, abiFile,
                 targetOut, wasmBuffer, result, path, cargoRuns, hist>>
  /\ UNCHANGED <<fnCall, revisionVars, serverVars>>

\* withBuildLock without buildLocks.set: fn is started and never registered
LookupMutant(c) ==
  /\ pc[c] = "lookup"
  /\ IF fileExists(wasmFile[key(c)])
     THEN /\ path' = [path EXCEPT ![c] = "hit"]
          /\ pc' = [pc EXCEPT ![c] = "hitRead"]
          /\ UNCHANGED <<buildLocks, waitOn, hist>>
     ELSE /\ path' = [path EXCEPT ![c] = "build"]
          /\ hist' = [hist EXCEPT !.lastBuilder[key(c)] = c]
          /\ pc' = [pc EXCEPT ![c] = "dcheck"]
          /\ UNCHANGED <<buildLocks, waitOn>>
  /\ UNCHANGED <<src, fifo, pending, fsVars, wasmBuffer, result, cargoRuns>>
  /\ UNCHANGED <<fnCall, revisionVars, serverVars>>

\* an attached call that gives its slot back while it awaits the build
LookupAttachMutant(c) ==
  /\ pc[c] = "lookup"
  /\ IF fileExists(wasmFile[key(c)])
     THEN /\ path' = [path EXCEPT ![c] = "hit"]
          /\ pc' = [pc EXCEPT ![c] = "hitRead"]
          /\ UNCHANGED <<buildLocks, waitOn, hist, pending>>
     ELSE IF buildLocks[key(c)] # 0
     THEN /\ path' = [path EXCEPT ![c] = "attach"]
          /\ waitOn' = [waitOn EXCEPT ![c] = buildLocks[key(c)]]
          /\ pc' = [pc EXCEPT ![c] = "attached"]
          /\ pending' = pending - 1
          /\ UNCHANGED <<buildLocks, hist>>
     ELSE /\ path' = [path EXCEPT ![c] = "build"]
          /\ buildLocks' = [buildLocks EXCEPT ![key(c)] = c]
          /\ hist' = [hist EXCEPT !.lastBuilder[key(c)] = c]
          /\ pc' = [pc EXCEPT ![c] = "dcheck"]
          /\ UNCHANGED <<waitOn, pending>>
  /\ UNCHANGED <<src, fifo, fsVars, wasmBuffer, result, cargoRuns>>
  /\ UNCHANGED <<fnCall, revisionVars, serverVars>>

\* if (await fileExists(wasmOut)) ... else withBuildLock(hash, fn): the has()
\* test, the call of fn up to its first await and the set() are synchronous
Lookup(c) ==
  /\ pc[c] = "lookup"
  /\ IF fileExists(wasmFile[key(c)])
     THEN /\ path' = [path EXCEPT ![c] = "hit"]
          /\ pc' = [pc EXCEPT ![c] = "hitRead"]
          /\ UNCHANGED <<buildLocks, waitOn, hist>>
     ELSE IF buildLocks[key(c)] # 0
     THEN /\ path' = [path EXCEPT ![c] = "attach"]
          /\ waitOn' = [waitOn EXCEPT ![c] = buildLocks[key(c)]]
          /\ pc' = [pc EXCEPT ![c] = "attached"]
          /\ UNCHANGED <<buildLocks, hist>>
     ELSE /\ path' = [path EXCEPT ![c] = "build"]
          /\ buildLocks' = [buildLocks EXCEPT ![key(c)] = c]
          /\ hist' = [hist EXCEPT !.lastBuilder[key(c)] = c]
          /\ pc' = [pc EXCEPT ![c] = "dcheck"]
          /\ UNCHANGED waitOn
  /\ UNCHANGED <<src, fifo, pending, fsVars, wasmBuffer, result, cargoRuns>>
  /\ UNCHANGED <<fnCall, revisionVars, serverVars>>

\* cache hit: const wasmBuffer = await fs.readFile(wasmOut)
HitRead(c) ==
  /\ pc[c] = "hitRead"
  /\ wasmBuffer' = [wasmBuffer EXCEPT ![c] = wasmFile[key(c)].data]
  /\ pc' = [pc EXCEPT ![c] = "hitAbi"]
  /\ UNCHANGED <<src, fifo, pending, buildLocks, waitOn, fsVars, result,
                 path, cargoRuns, hist>>
  /\ UNCHANGED <<fnCall, revisionVars, serverVars>>

\* if (await fileExists(abiOut)) read it, else parseABI and write it back
HitAbi(c) ==
  /\ pc[c] = "hitAbi"
  /\ IF fileExists(abiFile[key(c)])
     THEN pc' = [pc EXCEPT ![c] = "hitAbiRead"]
     ELSE pc' = [pc EXCEPT ![c] = "backfillOpen"]
  /\ UNCHANGED <<src, fifo, pending, buildLocks, waitOn, fsVars, wasmBuffer,
                 result, path, cargoRuns, hist>>
  /\ UNCHANGED <<fnCall, revisionVars, serverVars>>

\* abi = JSON.parse(await fs.readFile(abiOut, "utf8")); return
HitAbiRead(c) ==
  /\ pc[c] = "hitAbiRead"
  /\ LET d == abiFile[key(c)].data IN
     IF JsonOk(d)
     THEN Finish({c}, Success(wasmBuffer[c], d))
     ELSE Finish({c}, Failure(JsonMsg))
  /\ UNCHANGED <<src, buildLocks, waitOn, fsVars, wasmBuffer, path, cargoRuns, hist>>
  /\ UNCHANGED <<fnCall, revisionVars, serverVars>>

\* fs.writeFile(abiOut, ...) of the backfill: the open creates the file empty
BackfillOpen(c) ==
  /\ pc[c] = "backfillOpen"
  /\ \E ok \in BOOLEAN :
       IF ok
       THEN /\ abiFile' = [abiFile EXCEPT ![key(c)] = File(<<>>)]
            /\ pc' = [pc EXCEPT ![c] = "backfillData"]
            /\ UNCHANGED <<fifo, pending, result, hist>>
       ELSE /\ Finish({c}, Failure(AbiWriteMsg))
            /\ hist' = IoFault(c)
            /\ abiFile' = abiFile
  /\ UNCHANGED <<src, buildLocks, waitOn, wasmFile, workspace, targetOut,
                 wasmBuffer, path, cargoRuns>>
  /\ UNCHANGED <<fnCall, revisionVars, serverVars>>

\* the data of the backfill is written and the call returns
BackfillData(c) ==
  /\ pc[c] = "backfillData"
  /\ \E ok \in BOOLEAN :
       IF ok
       THEN /\ abiFile' = [abiFile EXCEPT ![key(c)] = File(abiOf(c))]
            /\ Finish({c}, Success(wasmBuffer[c], abiOf(c)))
            /\ hist' = hist
       ELSE /\ Finish({c}, Failure(AbiWriteMsg))
            /\ hist' = IoFault(c)
            /\ abiFile' = abiFile
  /\ UNCHANGED <<src, buildLocks, waitOn, wasmFile, workspace, targetOut,
                 wasmBuffer, path, cargoRuns>>
  /\ UNCHANGED <<fnCall, revisionVars, serverVars>>

\* inside the lock: if (await fileExists(wasmOut)) read the record, else
\* createProject
DCheck(c) ==
  /\ pc[c] = "dcheck"
  /\ IF fileExists(wasmFile[key(c)])
     THEN /\ path' = [path EXCEPT ![c] = "lockhit"]
          /\ pc' = [pc EXCEPT ![c] = "lockReadWasm"]
     ELSE /\ path' = path
          /\ pc' = [pc EXCEPT ![c] = "createProject"]
  /\ UNCHANGED <<src, fifo, pending, buildLocks, waitOn, fsVars, wasmBuffer,
                 result, cargoRuns, hist>>
  /\ UNCHANGED <<fnCall, revisionVars, serverVars>>

\* cache_hit_after_lock: const wasmBuffer = await fs.readFile(wasmOut)
LockReadWasm(c) ==
  /\ pc[c] = "lockReadWasm"
  /\ wasmBuffer' = [wasmBuffer EXCEPT ![c] = wasmFile[key(c)].data]
  /\ pc' = [pc EXCEPT ![c] = "lockReadAbi"]
  /\ UNCHANGED <<src, fifo, pending, buildLocks, waitOn, fsVars, result,
                 path, cargoRuns, hist>>
  /\ UNCHANGED <<fnCall, revisionVars, serverVars>>

\* const abi = JSON.parse(await fs.readFile(abiOut, "utf8")); return
LockReadAbi(c) ==
  /\ pc[c] = "lockReadAbi"
  /\ LET f == abiFile[key(c)] IN
     IF ~f.exists THEN Settle(c, Failure(NoAbiMsg))
     ELSE IF ~JsonOk(f.data) THEN Settle(c, Failure(JsonMsg))
     ELSE Settle(c, Success(wasmBuffer[c], f.data))
  /\ UNCHANGED <<src, waitOn, fsVars, wasmBuffer, path, cargoRuns, hist>>
  /\ UNCHANGED <<fnCall, revisionVars, serverVars>>

\* a workspace path built without the hash: one directory for every key
CreateProjectMutant(c) ==
  /\ pc[c] = "createProject"
  /\ workspace' = [k \in Keys |-> [dir |-> TRUE, lib |-> src[c]]]
  /\ pc' = [pc EXCEPT ![c] = "spawn"]
  /\ UNCHANGED <<src, fifo, pending, buildLocks, waitOn, wasmFile, abiFile,
                 targetOut, wasmBuffer, result, path, cargoRuns, hist>>
  /\ UNCHANGED <<fnCall, revisionVars, serverVars>>

\* createProject: src/, Cargo.toml and src/lib.rs are in the workspace, which
\* only the holder of the key's lock writes; runCargoBuild issues
\* ensureDir(targetDir)
CreateProject(c) ==
  /\ pc[c] = "createProject"
  /\ workspace' = [workspace EXCEPT ![key(c)] = [dir |-> TRUE, lib |-> src[c]]]
  /\ pc' = [pc EXCEPT ![c] = "spawn"]
  /\ UNCHANGED <<src, fifo, pending, buildLocks, waitOn, wasmFile, abiFile,
                 targetOut, wasmBuffer, result, path, cargoRuns, hist>>
  /\ UNCHANGED <<fnCall, revisionVars, serverVars>>

\* spawn("cargo", ["build", ...], { cwd: tempDir, env: { CARGO_TARGET_DIR } })
SpawnCargo(c) ==
  /\ pc[c] = "spawn"
  /\ cargoRuns' = [cargoRuns EXCEPT ![c] = @ + 1]
  /\ pc' = [pc EXCEPT ![c] = "cargo"]
  /\ UNCHANGED <<src, fifo, pending, buildLocks, waitOn, fsVars, wasmBuffer,
                 result, path, hist>>
  /\ UNCHANGED <<fnCall, revisionVars, serverVars>>

\* cargo.on("close", code): code 0 resolves, with or without the output file
\* written; any other code rejects
CargoClose(c) ==
  /\ pc[c] = "cargo"
  /\ \E code \in ExitCodes, produced \in BOOLEAN :
       IF code = 0
       THEN /\ targetOut' = [targetOut EXCEPT ![key(c)] =
                 IF produced THEN File(CargoOutput(workspace[key(c)].lib)) ELSE @]
            /\ pc' = [pc EXCEPT ![c] = "readOut"]
            /\ UNCHANGED <<fifo, pending, buildLocks, result, hist>>
       ELSE /\ ~produced
            /\ Settle(c, Failure(CargoFailedMsg(code)))
            /\ hist' = ToolFault(c)
            /\ targetOut' = targetOut
  /\ UNCHANGED <<src, waitOn, wasmFile, abiFile, workspace, wasmBuffer,
                 path, cargoRuns>>
  /\ UNCHANGED <<fnCall, revisionVars, serverVars>>

\* the subprocess never closes; nothing in runCargoBuild ends it
CargoHang(c) ==
  /\ pc[c] = "cargo"
  /\ pc' = [pc EXCEPT ![c] = "hung"]
  /\ hist' = hist
  /\ UNCHANGED <<src, fifo, pending, buildLocks, waitOn, fsVars, wasmBuffer,
                 result, path, cargoRuns>>
  /\ UNCHANGED <<fnCall, revisionVars, serverVars>>

\* const wasmBuffer = await fs.readFile(wasmPath); abi = parseABI(sourceCode);
\* fs.writeFile(wasmOut, wasmBuffer) is issued
ReadOutput(c) ==
  /\ pc[c] = "readOut"
  /\ IF targetOut[key(c)].exists
     THEN /\ wasmBuffer' = [wasmBuffer EXCEPT ![c] = targetOut[key(c)].data]
          /\ pc' = [pc EXCEPT ![c] = "wasmOpen"]
          /\ UNCHANGED <<fifo, pending, buildLocks, result, hist>>
     ELSE /\ Settle(c, Failure(NoOutputMsg))
          /\ hist' = ToolFault(c)
          /\ UNCHANGED wasmBuffer
  /\ UNCHANGED <<src, waitOn, fsVars, path, cargoRuns>>
  /\ UNCHANGED <<fnCall, revisionVars, serverVars>>

\* fs.writeFile(wasmOut, wasmBuffer): the open creates or truncates the file
WasmOpen(c) ==
  /\ pc[c] = "wasmOpen"
  /\ \E ok \in BOOLEAN :
       IF ok
       THEN /\ wasmFile' = [wasmFile EXCEPT ![key(c)] = File(<<>>)]
            /\ pc' = [pc EXCEPT ![c] = "wasmData"]
            /\ UNCHANGED <<fifo, pending, buildLocks, result, hist>>
       ELSE /\ Settle(c, Failure(WasmWriteMsg))
            /\ hist' = IoFault(c)
            /\ wasmFile' = wasmFile
  /\ UNCHANGED <<src, waitOn, abiFile, workspace, targetOut, wasmBuffer,
                 path, cargoRuns>>
  /\ UNCHANGED <<fnCall, revisionVars, serverVars>>

\* a write of the binary that is not awaited: compile goes on to the ABI
\* while the file is as the open left it
WasmDataMutant(c) ==
  /\ pc[c] = "wasmData"
  /\ pc' = [pc EXCEPT ![c] = "abiOpen"]
  /\ UNCHANGED <<src, fifo, pending, buildLocks, waitOn, fsVars, wasmBuffer,
                 result, path, cargoRuns, hist>>
  /\ UNCHANGED <<fnCall, revisionVars, serverVars>>

\* the bytes are written and the file closed, or the write fails and the
\* file stays as the open left it; fs.writeFile(abiOut, ...) is issued
WasmData(c) ==
  /\ pc[c] = "wasmData"
  /\ \E ok \in BOOLEAN :
       IF ok
       THEN /\ wasmFile' = [wasmFile EXCEPT ![key(c)] = File(wasmBuffer[c])]
            /\ pc' = [pc EXCEPT ![c] = "abiOpen"]
            /\ UNCHANGED <<fifo, pending, buildLocks, result, hist>>
       ELSE /\ Settle(c, Failure(WasmWriteMsg))
            /\ hist' = IoFault(c)
            /\ wasmFile' = wasmFile
  /\ UNCHANGED <<src, waitOn, abiFile, workspace, targetOut, wasmBuffer,
                 path, cargoRuns>>
  /\ UNCHANGED <<fnCall, revisionVars, serverVars>>

\* fs.writeFile(abiOut, JSON.stringify(abi, null, 2)): the open
AbiOpen(c) ==
  /\ pc[c] = "abiOpen"
  /\ \E ok \in BOOLEAN :
       IF ok
       THEN /\ abiFile' = [abiFile EXCEPT ![key(c)] = File(<<>>)]
            /\ pc' = [pc EXCEPT ![c] = "abiData"]
            /\ UNCHANGED <<fifo, pending, buildLocks, result, hist>>
       ELSE /\ Settle(c, Failure(AbiWriteMsg))
            /\ hist' = IoFault(c)
            /\ abiFile' = abiFile
  /\ UNCHANGED <<src, waitOn, wasmFile, workspace, targetOut, wasmBuffer,
                 path, cargoRuns>>
  /\ UNCHANGED <<fnCall, revisionVars, serverVars>>

\* the ABI is written; if (this.cleanupAfter) fs.rm(tempDir) is issued
AbiData(c) ==
  /\ pc[c] = "abiData"
  /\ \E ok \in BOOLEAN :
       IF ok
       THEN /\ abiFile' = [abiFile EXCEPT ![key(c)] = File(abiOf(c))]
            /\ hist' = hist
            /\ IF cleanupAfter
               THEN /\ pc' = [pc EXCEPT ![c] = "cleanup"]
                    /\ UNCHANGED <<fifo, pending, buildLocks, result>>
               ELSE Settle(c, Success(wasmBuffer[c], abiOf(c)))
       ELSE /\ Settle(c, Failure(AbiWriteMsg))
            /\ hist' = IoFault(c)
            /\ abiFile' = abiFile
  /\ UNCHANGED <<src, waitOn, wasmFile, workspace, targetOut, wasmBuffer,
                 path, cargoRuns>>
  /\ UNCHANGED <<fnCall, revisionVars, serverVars>>

\* fs.rm(tempDir, { recursive, force }).catch(() => {}); return
Cleanup(c) ==
  /\ pc[c] = "cleanup"
  /\ workspace' = [workspace EXCEPT ![key(c)] = NoDir]
  /\ Settle(c, Success(wasmBuffer[c], abiOf(c)))
  /\ UNCHANGED <<src, waitOn, wasmFile, abiFile, targetOut, wasmBuffer,
                 path, cargoRuns, hist>>
  /\ UNCHANGED <<fnCall, revisionVars, serverVars>>

(***************************************************************************)
(* Another coordinator instance on the same durable cache commits a record *)
(* for key k: its wasm file, then its ABI file.                            *)
(***************************************************************************)
ForeignWasm(k) ==
  /\ ~wasmFile[k].exists
  /\ buildLocks[k] # 0
  /\ wasmFile' = [wasmFile EXCEPT ![k] = PreloadedWasm(k)]
  /\ UNCHANGED <<pc, src, fifo, pending, buildLocks, waitOn, abiFile, workspace,
                 targetOut, wasmBuffer, result, path, cargoRuns, hist>>
  /\ UNCHANGED <<fnCall, revisionVars, serverVars>>

ForeignAbi(k) ==
  /\ wasmFile[k].exists
  /\ ~abiFile[k].exists
  /\ buildLocks[k] # 0
  /\ abiFile' = [abiFile EXCEPT ![k] = PreloadedAbi(k)]
  /\ UNCHANGED <<pc, src, fifo, pending, buildLocks, waitOn, wasmFile, workspace,
                 targetOut, wasmBuffer, result, path, cargoRuns, hist>>
  /\ UNCHANGED <<fnCall, revisionVars, serverVars>>

(***************************************************************************)
(* Specifications.                                                         *)
(***************************************************************************)
\* the continuations of call c that the event loop runs once they are ready
Step(c) ==
  \/ GetBuildDir(c) \/ Lookup(c)
  \/ HitRead(c) \/ HitAbi(c) \/ HitAbiRead(c)
  \/ BackfillOpen(c) \/ BackfillData(c)
  \/ DCheck(c) \/ CreateProject(c) \/ SpawnCargo(c)
  \/ CargoClose(c) \/ ReadOutput(c)
  \/ WasmOpen(c) \/ WasmData(c) \/ AbiOpen(c) \/ AbiData(c) \/ Cleanup(c)

Next ==
  \/ \E c \in Callers : Call(c)
  \/ \E c \in Callers : GetBuildDir(c)
  \/ \E c \in Callers : Lookup(c)
  \/ \E c \in Callers : HitRead(c)
  \/ \E c \in Callers : HitAbi(c)
  \/ \E c \in Callers : HitAbiRead(c)
  \/ \E c \in Callers : BackfillOpen(c)
  \/ \E c \in Callers : BackfillData(c)
  \/ \E c \in Callers : DCheck(c)
  \/ \E c \in Callers : CreateProject(c)
  \/ \E c \in Callers : SpawnCargo(c)
  \/ \E c \in Callers : CargoClose(c)
  \/ \E c \in Callers : CargoHang(c)
  \/ \E c \in Callers : ReadOutput(c)
  \/ \E c \in Callers : WasmOpen(c)
  \/ \E c \in Callers : WasmData(c)
  \/ \E c \in Callers : AbiOpen(c)
  \/ \E c \in Callers : AbiData(c)
  \/ \E c \in Callers : Cleanup(c)

\* one process, no other writer of the cache
Spec == Init /\ [][Next]_vars

\* every ready continuation is run, and a cargo process that has not hung
\* closes
FairSpec == Spec /\ \A c \in Callers : WF_vars(Step(c))

\* the keys of the sources submitted to the other coordinator instance
ForeignKeys == { stableHash(<<"a", LF>>) }

\* several coordinator instances share the durable cache
NextShared ==
  \/ Next
  \/ \E k \in ForeignKeys : ForeignWasm(k)
  \/ \E k \in ForeignKeys : ForeignAbi(k)
  \/ \E c \in Callers : LockReadWasm(c)
  \/ \E c \in Callers : LockReadAbi(c)

\* the shared cache is empty when the instances start
InitShared == Init /\ hist.preloaded = {}

SpecShared == InitShared /\ [][NextShared]_vars


(***************************************************************************)
(* stableHash on its own: a text over a letter, space, tab, CR and LF is   *)
(* normalized, or varied in its trivial whitespace, and hashed again.      *)
(***************************************************************************)
Alphabet == {"a", SP, TAB, CR, LF}

HashTexts == UNION { [1..n -> Alphabet] : n \in 0..MaxSourceLen }

\* t with the symbols x put in before position i
InsertAt(t, i, x) == SubSeq(t, 1, i - 1) \o x \o SubSeq(t, i, Len(t))

\* position i of t is the end of a line: the end of the text, an LF that
\* ends a line on its own, or the CR of a CRLF
LineEnd(t, i) ==
  \/ i = Len(t) + 1
  \/ IF i <= Len(t) THEN t[i] = CR ELSE FALSE
  \/ IF i <= Len(t)
     THEN t[i] = LF /\ (IF i = 1 THEN TRUE ELSE t[i - 1] # CR)
     ELSE FALSE

\* position i of t is the start of an empty line that another line follows
BlankLine(t, i) ==
  /\ i > 1 /\ i <= Len(t)
  /\ t[i - 1] = LF
  /\ \/ t[i] = LF
     \/ t[i] = CR

InitHash ==
  /\ InitCompiler
  /\ NoServer
  /\ hist.preloaded = {}
  /\ \E t \in HashTexts :
       fnCall = [fn |-> "stableHash", source |-> t, text |-> t,
                 how |-> "source", edits |-> 0]

\* the text is passed through the four replacements once more
Normalize ==
  /\ fnCall.how \in {"source", "normalized"}
  /\ fnCall.edits < MaxEdits
  /\ fnCall' = [fnCall EXCEPT !.text = normalized(@), !.how = "normalized",
                              !.edits = @ + 1]
  /\ UNCHANGED <<compilerVars, revisionVars, serverVars>>

CanEdit ==
  /\ fnCall.how \in {"source", "edited"}
  /\ fnCall.edits < MaxEdits

Edited(t) ==
  [fnCall EXCEPT !.text = t, !.how = "edited", !.edits = @ + 1]

\* an LF line ending becomes CRLF
CrlfForLf ==
  /\ CanEdit
  /\ \E i \in 1..Len(fnCall.text) :
       /\ fnCall.text[i] = LF
       /\ IF i = 1 THEN TRUE ELSE fnCall.text[i - 1] # CR
       /\ fnCall' = Edited(InsertAt(fnCall.text, i, <<CR>>))
  /\ UNCHANGED <<compilerVars, revisionVars, serverVars>>

\* a space or a tab is put at the end of a line
TrailingBlank ==
  /\ CanEdit
  /\ \E i \in 1..(Len(fnCall.text) + 1), ch \in {SP, TAB} :
       /\ LineEnd(fnCall.text, i)
       /\ fnCall' = Edited(InsertAt(fnCall.text, i, <<ch>>))
  /\ UNCHANGED <<compilerVars, revisionVars, serverVars>>

\* a blank line is repeated
RepeatBlankLine ==
  /\ CanEdit
  /\ \E i \in 1..Len(fnCall.text) :
       /\ BlankLine(fnCall.text, i)
       /\ fnCall' = Edited(InsertAt(fnCall.text, i, <<LF>>))
  /\ UNCHANGED <<compilerVars, revisionVars, serverVars>>

\* a blank line is put before the first line or after the last
OuterBlankLine ==
  /\ CanEdit
  /\ \E i \in {1, Len(fnCall.text) + 1} :
       fnCall' = Edited(InsertAt(fnCall.text, i, <<LF>>))
  /\ UNCHANGED <<compilerVars, revisionVars, serverVars>>

NextHash ==
  \/ Normalize
  \/ CrlfForLf
  \/ TrailingBlank
  \/ RepeatBlankLine
  \/ OuterBlankLine

SpecHash == InitHash /\ [][NextHash]_vars

(***************************************************************************)
(* parseABI on its own: the three scans of the source, then the return.    *)
(***************************************************************************)
AbiAlphabet ==
  OpcodeMarkers \cup {"Foo", "__proto__", "pub", "struct", SP, StorageMarker}

AbiTexts == UNION { [1..n -> AbiAlphabet] : n \in 0..MaxAbiLen }

InitAbi ==
  /\ InitCompiler
  /\ NoServer
  /\ hist.preloaded = {}
  /\ \E t \in AbiTexts :
       fnCall = [fn |-> "parseABI", source |-> t, at |-> "methods",
                 methods |-> <<>>, opcodes |-> <<>>, name |-> <<>>,
                 storage |-> <<>>, abi |-> <<>>]

\* the messageRegex loop: methods and opcodes
ScanMethods ==
  /\ fnCall.fn = "parseABI" /\ fnCall.at = "methods"
  /\ fnCall' = [fnCall EXCEPT !.methods = Methods(fnCall.source),
                              !.opcodes = Opcodes(Methods(fnCall.source)),
                              !.at = "structs"]
  /\ UNCHANGED <<compilerVars, revisionVars, serverVars>>

\* the structRegex loop and the choice of the name
ScanStructs ==
  /\ fnCall.fn = "parseABI" /\ fnCall.at = "structs"
  /\ fnCall' = [fnCall EXCEPT !.name = ContractName(fnCall.source),
                              !.at = "storage"]
  /\ UNCHANGED <<compilerVars, revisionVars, serverVars>>

\* the storageRegex loop
ScanStorage ==
  /\ fnCall.fn = "parseABI" /\ fnCall.at = "storage"
  /\ fnCall' = [fnCall EXCEPT !.storage = Storage(fnCall.source),
                              !.at = "return"]
  /\ UNCHANGED <<compilerVars, revisionVars, serverVars>>

\* return { name, version: "1.0.0", methods, storage, opcodes }
ReturnAbi ==
  /\ fnCall.fn = "parseABI" /\ fnCall.at = "return"
  /\ fnCall' = [fnCall EXCEPT
        !.abi = AbiDescription(fnCall.name, fnCall.methods, fnCall.storage,
                               fnCall.opcodes),
        !.at = "returned"]
  /\ UNCHANGED <<compilerVars, revisionVars, serverVars>>

NextAbi ==
  \/ ScanMethods
  \/ ScanStructs
  \/ ScanStorage
  \/ ReturnAbi

SpecAbi == InitAbi /\ [][NextAbi]_vars

(***************************************************************************)
(* The compiler with the contractName argument of each call chosen.        *)
(***************************************************************************)
ContractNames == {"A", "B"}

InitName ==
  /\ InitCompiler
  /\ NoServer
  /\ hist.preloaded = {}
  /\ \E n \in [Callers -> ContractNames] :
       fnCall = [fn |-> "compileContract", contractName |-> n]

SpecName == InitName /\ [][Next]_vars

(***************************************************************************)
(* The cached revision of src/src/compiler.ts (lines 219-479).  Its queue, *)
(* stableHash, withBuildLock, getBuildDir, first and second lookup and     *)
(* createProject are those modelled above; it reads the ABI of a cached    *)
(* record without a backfill, hands every cargo process the one directory  *)
(* CARGO_CACHE_DIR and reads the binary from under the workspace.          *)
(***************************************************************************)
CARGO_CACHE_DIR == <<"/mnt/cache/target">>

\* const { dir: tempDir, hash } = await this.getBuildDir(sourceCode)
tempDir(c) == <<"/tmp/builds", "build_">> \o key(c)

\* where cargo, given the target directory dir, puts the binary of the crate
\* alkanes_contract
OutputPath(dir) ==
  dir \o <<"wasm32-unknown-unknown", "release", "alkanes_contract.wasm">>

\* runCargoBuild(tempDir, { CARGO_TARGET_DIR: CARGO_CACHE_DIR, ... })
CachedTargetDir(c) == CARGO_CACHE_DIR

\* path.join(tempDir, "target", "wasm32-unknown-unknown", "release",
\* "alkanes_contract.wasm")
CachedWasmPath(c) == OutputPath(tempDir(c) \o <<"target">>)

\* the file at path p: cargo writes under CARGO_CACHE_DIR only, and nothing
\* makes a target directory in a workspace
CachedFileAt(p) ==
  IF p = OutputPath(CARGO_CACHE_DIR) THEN cacheTarget ELSE NoFile

\* cache hit: const abi = JSON.parse(await fs.readFile(abiOut, "utf8")); return
CachedHitAbiRead(c) ==
  /\ pc[c] = "hitAbi"
  /\ LET f == abiFile[key(c)] IN
     IF ~f.exists THEN Finish({c}, Failure(NoAbiMsg))
     ELSE IF ~JsonOk(f.data) THEN Finish({c}, Failure(JsonMsg))
     ELSE Finish({c}, Success(wasmBuffer[c], f.data))
  /\ UNCHANGED <<src, buildLocks, waitOn, fsVars, wasmBuffer, path, cargoRuns, hist>>
  /\ UNCHANGED <<fnCall, revisionVars, serverVars>>

\* cargo.on("close", code): with code 0 the binary, if cargo made one, is at
\* OutputPath(CARGO_TARGET_DIR), in place of what was there
CachedCargoClose(c) ==
  /\ pc[c] = "cargo"
  /\ \E code \in ExitCodes, produced \in BOOLEAN :
       IF code = 0
       THEN /\ cacheTarget' =
                 IF produced THEN File(CargoOutput(workspace[key(c)].lib))
                 ELSE cacheTarget
            /\ pc' = [pc EXCEPT ![c] = "readOut"]
            /\ UNCHANGED <<fifo, pending, buildLocks, result, hist>>
       ELSE /\ ~produced
            /\ Settle(c, Failure(CargoFailedMsg(code)))
            /\ hist' = ToolFault(c)
            /\ cacheTarget' = cacheTarget
  /\ UNCHANGED <<src, waitOn, fsVars, wasmBuffer, path, cargoRuns>>
  /\ UNCHANGED <<fnCall, tryOutcome, serverVars>>

\* const wasmBuffer = await fs.readFile(wasmPath): the closure rejects when
\* there is no such file, else goes on to parseABI and the cache writes
CachedReadOutput(c) ==
  /\ pc[c] = "readOut"
  /\ LET f == CachedFileAt(CachedWasmPath(c)) IN
     IF f.exists
     THEN /\ wasmBuffer' = [wasmBuffer EXCEPT ![c] = f.data]
          /\ pc' = [pc EXCEPT ![c] = "wasmOpen"]
          /\ UNCHANGED <<fifo, pending, buildLocks, result>>
     ELSE /\ Settle(c, Failure(NoOutputMsg))
          /\ UNCHANGED wasmBuffer
  /\ UNCHANGED <<src, waitOn, fsVars, path, cargoRuns, hist>>
  /\ UNCHANGED <<fnCall, revisionVars, serverVars>>

\* the steps after the read of the binary (lines 368-379) are reached in no
\* behaviour and are not among the steps
NextCached ==
  \/ \E c \in Callers : Call(c)
  \/ \E c \in Callers : GetBuildDir(c)
  \/ \E c \in Callers : Lookup(c)
  \/ \E c \in Callers : HitRead(c)
  \/ \E c \in Callers : CachedHitAbiRead(c)
  \/ \E c \in Callers : DCheck(c)
  \/ \E c \in Callers : CreateProject(c)
  \/ \E c \in Callers : SpawnCargo(c)
  \/ \E c \in Callers : CachedCargoClose(c)
  \/ \E c \in Callers : CargoHang(c)
  \/ \E c \in Callers : CachedReadOutput(c)

SpecCached == Init /\ [][NextCached]_vars

(***************************************************************************)
(* The uncached revision of src/src/compiler.ts (lines 1-217): the queue,  *)
(* a workspace and a target directory per hash, no artifact cache and no   *)
(* build lock; compile removes the workspace in its finally block.         *)
(***************************************************************************)
\* getBuildDirForSource: fs.mkdir(dir, { recursive: true }) has run;
\* createProject is entered
GetBuildDirForSource(c) ==
  /\ pc[c] = "getBuildDir"
  /\ workspace' = [workspace EXCEPT ![key(c)].dir = TRUE]
  /\ pc' = [pc EXCEPT ![c] = "createProject"]
  /\ UNCHANGED <<src, fifo, pending, buildLocks, waitOn, wasmFile, abiFile,
                 targetOut, wasmBuffer, result, path, cargoRuns, hist>>
  /\ UNCHANGED <<fnCall, revisionVars, serverVars>>

\* cargo.on("close", code): code 0 resolves, with the binary made of the
\* lib.rs in the workspace if the workspace is still there; any other code
\* rejects and the finally block issues fs.rm(tempDir)
UncachedCargoClose(c) ==
  /\ pc[c] = "cargo"
  /\ \E code \in ExitCodes, produced \in BOOLEAN :
       IF code = 0
       THEN /\ produced => workspace[key(c)].dir
            /\ targetOut' = [targetOut EXCEPT ![key(c)] =
                 IF produced THEN File(CargoOutput(workspace[key(c)].lib)) ELSE @]
            /\ pc' = [pc EXCEPT ![c] = "readOut"]
            /\ UNCHANGED <<tryOutcome, hist>>
       ELSE /\ ~produced
            /\ tryOutcome' = [tryOutcome EXCEPT ![c] = Failure(CargoFailedMsg(code))]
            /\ hist' = ToolFault(c)
            /\ pc' = [pc EXCEPT ![c] = "finally"]
            /\ targetOut' = targetOut
  /\ UNCHANGED <<src, fifo, pending, buildLocks, waitOn, wasmFile, abiFile,
                 workspace, wasmBuffer, result, path, cargoRuns>>
  /\ UNCHANGED <<fnCall, cacheTarget, serverVars>>

\* const wasmBuffer = await fs.readFile(wasmPath); abi = parseABI(sourceCode);
\* return, or the read rejects; the finally block issues fs.rm(tempDir)
UncachedReadOutput(c) ==
  /\ pc[c] = "readOut"
  /\ IF targetOut[key(c)].exists
     THEN /\ wasmBuffer' = [wasmBuffer EXCEPT ![c] = targetOut[key(c)].data]
          /\ tryOutcome' = [tryOutcome EXCEPT ![c] =
               Success(targetOut[key(c)].data, abiOf(c))]
          /\ hist' = hist
     ELSE /\ tryOutcome' = [tryOutcome EXCEPT ![c] = Failure(NoOutputMsg)]
          /\ hist' = ToolFault(c)
          /\ UNCHANGED wasmBuffer
  /\ pc' = [pc EXCEPT ![c] = "finally"]
  /\ UNCHANGED <<src, fifo, pending, buildLocks, waitOn, fsVars, result, path,
                 cargoRuns>>
  /\ UNCHANGED <<fnCall, cacheTarget, serverVars>>

\* finally: fs.rm(tempDir, { recursive, force }).catch(() => {}) has run;
\* compile returns or throws as its try block ended
UncachedFinally(c) ==
  /\ pc[c] = "finally"
  /\ workspace' = [workspace EXCEPT ![key(c)] = NoDir]
  /\ Finish({c}, tryOutcome[c])
  /\ UNCHANGED <<src, buildLocks, waitOn, wasmFile, abiFile, targetOut,
                 wasmBuffer, path, cargoRuns, hist>>
  /\ UNCHANGED <<fnCall, revisionVars, serverVars>>

NextUncached ==
  \/ \E c \in Callers : Call(c)
  \/ \E c \in Callers : GetBuildDirForSource(c)
  \/ \E c \in Callers : CreateProject(c)
  \/ \E c \in Callers : SpawnCargo(c)
  \/ \E c \in Callers : UncachedCargoClose(c)
  \/ \E c \in Callers : CargoHang(c)
  \/ \E c \in Callers : UncachedReadOutput(c)
  \/ \E c \in Callers : UncachedFinally(c)

\* this revision keeps no artifact cache
InitUncached == Init /\ hist.preloaded = {}

SpecUncached == InitUncached /\ [][NextUncached]_vars

(***************************************************************************)
(* The pooled server (src/server.js): a Set of pre-created project         *)
(* directories, the replenishPool loops that fill it, and the POST         *)
(* /compile handler.  A project path is the number of the random id drawn  *)
(* for it; ids of 16 random bytes are taken never to repeat.               *)
(***************************************************************************)
PROJECT_POOL_SIZE == 5

Requests == 1..MaxRequests

\* projectPool.add(p): a Set keeps insertion order and holds p once
PoolAdd(pool, p) ==
  IF \E i \in 1..Len(pool) : pool[i] = p THEN pool ELSE Append(pool, p)

\* the paths in the pool
PoolPaths == { projectPool[i] : i \in 1..Len(projectPool) }

\* createProjectDir up to its first await: the id is drawn and mkdir issued;
\* by is the caller that awaits it (replenishPool, or the handler of request
\* req), or "detached" when nothing does
Creation(by, r) == [id |-> projectId + 1, by |-> by, req |-> r]

\* every createProjectDir call there may be
Creations ==
  [id : 1..MaxProjects, by : {"replenishPool", "handler", "detached"},
   req : 0..MaxRequests]

\* replenishPool as called with the pool as given: while (size < 5) the
\* next createProjectDir is started, else the loop ends
Replenish(pool, started) ==
  IF Len(pool) < PROJECT_POOL_SIZE
  THEN /\ projectId < MaxProjects
       /\ creating' = started \cup {Creation("replenishPool", 0)}
       /\ projectId' = projectId + 1
  ELSE /\ creating' = started
       /\ projectId' = projectId

\* module load: replenishPool() runs to its first await
InitServer ==
  /\ InitCompiler
  /\ hist.preloaded = {}
  /\ fnCall = NoCall
  /\ projectPool = <<>>
  /\ creating = {[id |-> 1, by |-> "replenishPool", req |-> 0]}
  /\ projectId = 1
  /\ projectDirs = {}
  /\ reqPc = [r \in Requests |-> "idle"]
  /\ projectPath = [r \in Requests |-> 0]

\* a createProjectDir call returns: the directory and its Cargo.toml are on
\* disk, the path is added to the pool, and the caller continues: the loop
\* of replenishPool tests the size again, the handler goes on to write
\* src/lib.rs
CreateProjectDir(p) ==
  /\ p \in creating
  /\ projectDirs' = projectDirs \cup {p.id}
  /\ projectPool' = PoolAdd(projectPool, p.id)
  /\ IF p.by = "replenishPool"
     THEN /\ Replenish(projectPool', creating \ {p})
          /\ UNCHANGED <<reqPc, projectPath>>
     ELSE IF p.by = "detached"
     THEN /\ creating' = creating \ {p}
          /\ UNCHANGED <<projectId, reqPc, projectPath>>
     ELSE /\ creating' = creating \ {p}
          /\ projectPath' = [projectPath EXCEPT ![p.req] = p.id]
          /\ reqPc' = [reqPc EXCEPT ![p.req] = "write"]
          /\ UNCHANGED projectId
  /\ UNCHANGED <<compilerVars, revisionVars, fnCall>>

\* app.post("/compile"): without code the answer is 400; else the first path
\* of the pool is taken out of it, or with the pool empty createProjectDir
\* is awaited
Receive(r) ==
  /\ reqPc[r] = "idle"
  /\ \E code \in BOOLEAN :
       IF ~code
       THEN /\ reqPc' = [reqPc EXCEPT ![r] = "sent400"]
            /\ UNCHANGED <<projectPool, creating, projectId, projectPath>>
       ELSE IF projectPool # <<>>
       THEN /\ projectPath' = [projectPath EXCEPT ![r] = Head(projectPool)]
            /\ projectPool' = Tail(projectPool)
            /\ reqPc' = [reqPc EXCEPT ![r] = "write"]
            /\ UNCHANGED <<creating, projectId>>
       ELSE /\ projectId < MaxProjects
            /\ creating' = creating \cup {Creation("handler", r)}
            /\ projectId' = projectId + 1
            /\ reqPc' = [reqPc EXCEPT ![r] = "create"]
            /\ UNCHANGED <<projectPool, projectPath>>
  /\ UNCHANGED projectDirs
  /\ UNCHANGED <<compilerVars, revisionVars, fnCall>>

\* await writeFile(join(projectPath, "src", "lib.rs"), code): it fails when
\* the directory is gone; then cargo is started, or the catch block issues rm
WriteSource(r) ==
  /\ reqPc[r] = "write"
  /\ reqPc' = [reqPc EXCEPT ![r] =
       IF projectPath[r] \in projectDirs THEN "cargo" ELSE "rm"]
  /\ UNCHANGED <<projectPool, creating, projectId, projectDirs, projectPath>>
  /\ UNCHANGED <<compilerVars, revisionVars, fnCall>>

\* await execAsync(cargoCommand, { cwd: projectPath, timeout: 30000 }): cargo
\* exits 0, or it exits with an error or is killed at the timeout
ExecCargo(r) ==
  /\ reqPc[r] = "cargo"
  /\ \E code \in ExitCodes :
       reqPc' = [reqPc EXCEPT ![r] = IF code = 0 THEN "read" ELSE "rm"]
  /\ UNCHANGED <<projectPool, creating, projectId, projectDirs, projectPath>>
  /\ UNCHANGED <<compilerVars, revisionVars, fnCall>>

\* const wasmBuffer = await readFile(wasmPath): the output is there or not;
\* then writeFile(lib.rs, "") is issued, or rm
ReadWasm(r) ==
  /\ reqPc[r] = "read"
  /\ \E produced \in BOOLEAN :
       reqPc' = [reqPc EXCEPT ![r] =
         IF produced /\ projectPath[r] \in projectDirs THEN "reset" ELSE "rm"]
  /\ UNCHANGED <<projectPool, creating, projectId, projectDirs, projectPath>>
  /\ UNCHANGED <<compilerVars, revisionVars, fnCall>>

\* lib.rs is emptied; projectPool.add(projectPath); replenishPool();
\* res.json(...)
ReturnProject(r) ==
  /\ reqPc[r] = "reset"
  /\ IF projectPath[r] \in projectDirs
     THEN /\ projectPool' = PoolAdd(projectPool, projectPath[r])
          /\ Replenish(projectPool', creating)
          /\ reqPc' = [reqPc EXCEPT ![r] = "sent200"]
     ELSE /\ reqPc' = [reqPc EXCEPT ![r] = "rm"]
          /\ UNCHANGED <<projectPool, creating, projectId>>
  /\ UNCHANGED <<projectDirs, projectPath>>
  /\ UNCHANGED <<compilerVars, revisionVars, fnCall>>

\* catch: await rm(projectPath, { recursive, force }); createProjectDir() is
\* started and not awaited; res.status(500)
RemoveProject(r) ==
  /\ reqPc[r] = "rm"
  /\ projectId < MaxProjects
  /\ projectDirs' = projectDirs \ {projectPath[r]}
  /\ creating' = creating \cup {Creation("detached", 0)}
  /\ projectId' = projectId + 1
  /\ reqPc' = [reqPc EXCEPT ![r] = "sent500"]
  /\ UNCHANGED <<projectPool, projectPath>>
  /\ UNCHANGED <<compilerVars, revisionVars, fnCall>>

NextServer ==
  \/ \E p \in Creations : CreateProjectDir(p)
  \/ \E r \in Requests : Receive(r)
  \/ \E r \in Requests : WriteSource(r)
  \/ \E r \in Requests : ExecCargo(r)
  \/ \E r \in Requests : ReadWasm(r)
  \/ \E r \in Requests : ReturnProject(r)
  \/ \E r \in Requests : RemoveProject(r)

SpecServer == InitServer /\ [][NextServer]_vars

(***************************************************************************)
(* Properties.                                                             *)
(***************************************************************************)
Called(c) == pc[c] # "idle"
Done(c) == pc[c] = "done"
Ok(c) == Done(c) /\ result[c].status = "ok"
Failed(c) == Done(c) /\ result[c].status = "fail"

\* the calls made so far with source s
CallsOf(s) == { c \in Callers : Called(c) /\ src[c] = s }

\* cargo processes spawned by the calls in S
RECURSIVE Invocations(_)
Invocations(S) ==
  IF S = {} THEN 0
  ELSE LET c == CHOOSE x \in S : TRUE IN cargoRuns[c] + Invocations(S \ {c})

\* cargo subprocesses spawned and not yet closed
RunningCargo == { c \in Callers : pc[c] \in {"cargo", "hung"} }

\* the calls that attached to the in-flight build of b
AttachedTo(b) == { a \in Callers : path[a] = "attach" /\ waitOn[a] = b }

\* C1: N calls with identical source, none of them made after another call
\* for the key had returned, on a cache with no record for the key: at most
\* one cargo process is spawned over all of them, exactly one once one of
\* them has succeeded, and all that succeed return the same bytes and ABI.
C1_OneInvocationPerSource ==
  \A s \in Sources :
    ( /\ hashOf[s] \notin hist.preloaded
      /\ \A c \in CallsOf(s) : hist.priorDone[c] = {} )
    => /\ Invocations(CallsOf(s)) <= 1
       /\ (\E c \in CallsOf(s) : Ok(c)) => Invocations(CallsOf(s)) = 1
       /\ \A c, d \in CallsOf(s) : (Ok(c) /\ Ok(d)) => result[c] = result[d]

\* C2: at most 2 cargo subprocesses are spawned and not yet closed.
C2_AtMostTwoCargo == Cardinality(RunningCargo) <= 2

C2_Witness ==
  /\ Cardinality(RunningCargo) = 2
  /\ \E c \in Callers : pc[c] = "queued"

\* C3: when the toolchain invocation of builder b has failed, b and every
\* call attached to its build have ended with the same failure, and as long
\* as no later build for the key was started neither cache file of the key
\* exists.
C3_FailureFanOut ==
  \A b \in hist.toolFailed :
    /\ Failed(b)
    /\ \A a \in AttachedTo(b) : Done(a) /\ result[a] = result[b]
    /\ hist.lastBuilder[key(b)] = b =>
         ~wasmFile[key(b)].exists /\ ~abiFile[key(b)].exists

C3_Witness ==
  \E b \in hist.toolFailed : \E a \in AttachedTo(b) : Failed(a) /\ Failed(b)

\* C4: while no build for key k is in flight, the cache holds both files of
\* k or neither.
C4_NoPartialRecord ==
  \A k \in Keys :
    buildLocks[k] = 0 => (wasmFile[k].exists <=> abiFile[k].exists)

C6_SecondCallHits ==
  \A c2 \in Callers : \A c1 \in hist.priorDone[c2] :
    (result[c1].status = "ok" /\ src[c1] = src[c2]) =>
      /\ path[c2] \in {"none", "hit"}
      /\ cargoRuns[c2] = 0
      /\ path[c1] = "build" => cargoRuns[c1] + cargoRuns[c2] = 1
      /\ (Done(c2) /\ path[c1] = "build" /\ CallsOf(src[c2]) = {c1, c2}) =>
           result[c2] = result[c1]

C6_Witness ==
  \E c2 \in Callers : \E c1 \in hist.priorDone[c2] :
    /\ Ok(c1) /\ path[c1] = "build" /\ src[c1] = src[c2]
    /\ Ok(c2) /\ path[c2] = "hit"
    /\ CallsOf(src[c2]) = {c1, c2}

\* C9: a call whose key has a record in the cache is never made to wait for
\* a slot of the queue.
C9_HitBypassesQueue ==
  \A c \in Callers :
    (Called(c) /\ key(c) \in hist.preloaded) => pc[c] # "queued"

\* C10: in the step in which the build attempt of a call ends, in success or
\* in failure, the workspace build_<k> is gone.
C10_WorkspaceRemoved ==
  [][ \A c \in Callers :
        (path[c] = "build" /\ ~Done(c) /\ pc'[c] = "done") =>
          ~workspace'[key(c)].dir ]_vars


\* C7: a cargo process that never closes is ended, and the call that
\* spawned it ends in failure.
C7_HungInvocationEnds ==
  \A c \in Callers : (pc[c] = "hung") ~> Failed(c)

\* the calls made so far have pairwise distinct keys
DistinctKeys ==
  \A c, d \in Callers : (Called(c) /\ Called(d) /\ c # d) => key(c) # key(d)

\* some toolchain invocation hung, exited non-zero or left no output file
ToolchainFault ==
  \/ \E c \in Callers : pc[c] = "hung"
  \/ hist.toolFailed # {}

InCompile(c) == pc[c] \notin {"idle", "queued", "attached", "done"}

C12_WriteOnce ==
  [][ (hist.toolFailed = {} /\ hist.ioFailed = {}) =>
      \A c \in Callers :
        /\ (pc[c] = "wasmOpen" /\ pc'[c] = "wasmData")
             => ~wasmFile[key(c)].exists
        /\ (pc[c] \in {"abiOpen", "backfillOpen"}
              /\ pc'[c] \in {"abiData", "backfillData"})
             => ~abiFile[key(c)].exists
    ]_vars

\* call d ended in the failure of a toolchain invocation: its own, or the one
\* of the build it was attached to
ToolFailedCall(d) ==
  \/ d \in hist.toolFailed
  \/ path[d] = "attach" /\ Failed(d) /\ waitOn[d] \in hist.toolFailed

\* call c2 is the one call made for its source after every earlier call for
\* it had ended in a toolchain failure
RetryAfterToolFailure(c2) ==
  /\ Called(c2)
  /\ hist.priorDone[c2] # {}
  /\ CallsOf(src[c2]) = hist.priorDone[c2] \cup {c2}
  /\ \A d \in hist.priorDone[c2] : ToolFailedCall(d)

\* C13: a build whose toolchain invocation failed spawned cargo once, and the
\* one call made for the same source after the failure takes neither the
\* cache-hit branch nor attaches to a build: it builds, spawning cargo
\* exactly once.
C13_FreshBuildAfterFailure ==
  /\ \A b \in hist.toolFailed : cargoRuns[b] = 1
  /\ \A c2 \in Callers :
       RetryAfterToolFailure(c2) =>
         /\ path[c2] \in {"none", "build"}
         /\ cargoRuns[c2] <= 1
         /\ pc[c2] \in {"cargo", "hung", "readOut", "wasmOpen", "wasmData",
                        "abiOpen", "abiData", "cleanup", "done"}
              => cargoRuns[c2] = 1

C13_Witness ==
  \E c2 \in Callers :
    /\ RetryAfterToolFailure(c2)
    /\ Cardinality(hist.priorDone[c2]) = 2
    /\ Ok(c2) /\ path[c2] = "build" /\ cargoRuns[c2] = 1

\* C14: once a text has been normalized, the normalized text has the hash of
\* the text it was made from.
C14_HashOfNormalized ==
  fnCall.how = "normalized" => stableHash(fnCall.text) = stableHash(fnCall.source)

\* C15: a text varied by turning LF line endings into CRLF, by spaces or tabs
\* at the end of lines, by repeating blank lines and by blank lines before
\* the first or after the last line, has the hash of the text it was made
\* from.
C15_TrivialWhitespace ==
  fnCall.how = "edited" => stableHash(fnCall.text) = stableHash(fnCall.source)

C15_Witness ==
  /\ fnCall.how = "edited" /\ fnCall.edits = 2
  /\ \E i \in 1..Len(fnCall.text) : fnCall.text[i] = CR
  /\ \E i \in 1..Len(fnCall.text) : fnCall.text[i] = TAB
  /\ \E i \in 1..Len(fnCall.source) : fnCall.source[i] = "a"
  /\ Len(normalized(fnCall.source)) >= 3

\* parseABI has returned
AbiReturned == fnCall.fn = "parseABI" /\ fnCall.at = "returned"

\* C16: in the description parseABI returns, opcodes holds for the name of
\* every method the opcode of that method.
C16_OpcodesMatchMethods ==
  AbiReturned =>
    \A i \in 1..Len(AbiMethods(fnCall.abi)) :
      LET m == AbiMethods(fnCall.abi)[i] IN
      /\ m.name \in DOMAIN AbiOpcodes(fnCall.abi)
      /\ AbiOpcodes(fnCall.abi)[m.name] = m.opcode

\* the source holds no opcode marker, no pub and no storage marker
NoMarkers(t) ==
  \A i \in 1..Len(t) : t[i] \notin OpcodeMarkers \cup {"pub", StorageMarker}

\* C17: what parseABI returns is a description, equal to what the three scans
\* extract from the source, and for a source with no marker it has no method,
\* no opcode, no storage entry and the name UnknownContract.
C17_AlwaysADescription ==
  AbiReturned =>
    /\ fnCall.abi = parseABI(fnCall.source)
    /\ Len(fnCall.abi) = 5
    /\ AbiName(fnCall.abi) # <<>>
    /\ NoMarkers(fnCall.source) =>
         fnCall.abi = AbiDescription(<<"UnknownContract">>, <<>>, <<>>, <<>>)

C17_Witness ==
  /\ AbiReturned
  /\ NoMarkers(fnCall.source)
  /\ Len(fnCall.source) = MaxAbiLen
  /\ \E i \in 1..Len(fnCall.source) : fnCall.source[i] = "struct"
  /\ fnCall.abi = AbiDescription(<<"UnknownContract">>, <<>>, <<>>, <<>>)

\* call c is the builder of its key
Building(c) == path[c] = "build" /\ ~Done(c)

\* C18: two calls with the same source and different names use the same key;
\* they are never both building; and when the second is made after the first
\* has returned success it is a cache hit that spawns no cargo process and,
\* with no third call for the source, returns what the first returned.
C18_NameIrrelevant ==
  \A c, d \in Callers :
    ( /\ Called(c) /\ Called(d) /\ c # d
      /\ src[c] = src[d]
      /\ contractName(c) # contractName(d) )
    => /\ key(c) = key(d)
       /\ ~(Building(c) /\ Building(d))
       /\ (c \in hist.priorDone[d] /\ Ok(c)) =>
            /\ path[d] \in {"none", "hit"}
            /\ cargoRuns[d] = 0
            /\ (Done(d) /\ path[c] = "build" /\ CallsOf(src[d]) = {c, d})
                 => result[d] = result[c]

C18_Witness ==
  \E c, d \in Callers :
    /\ contractName(c) # contractName(d)
    /\ src[c] = src[d]
    /\ c \in hist.priorDone[d]
    /\ Ok(c) /\ path[c] = "build"
    /\ Ok(d) /\ path[d] = "hit"
    /\ CallsOf(src[d]) = {c, d}

\* which of the four outcomes call c ended with
Outcome(c) == IF Failed(c) THEN "failure" ELSE path[c]

\* C19: two calls that ended with different outcomes (cache hit, attachment,
\* fresh build, failure) did not receive the same thing from compile.
C19_OutcomeDistinguishable ==
  \A c, d \in Callers :
    (Done(c) /\ Done(d) /\ result[c] = result[d]) => Outcome(c) = Outcome(d)

\* the build closure of call c has been started and has not settled
InLock(c) == path[c] \in {"build", "lockhit"} /\ ~Done(c)

\* C20: buildLocks has an entry for key k exactly while a build closure for k
\* has not settled, and the entry is that closure's; no two closures for one
\* key are unsettled together; when every call made has ended buildLocks is
\* empty.
C20_LockLifecycle ==
  /\ \A k \in Keys :
       /\ buildLocks[k] # 0 <=> \E c \in Callers : InLock(c) /\ key(c) = k
       /\ \A c \in Callers : (InLock(c) /\ key(c) = k) => buildLocks[k] = c
  /\ \A c, d \in Callers :
       (InLock(c) /\ InLock(d) /\ key(c) = key(d)) => c = d
  /\ (\A c \in Callers : pc[c] \in {"idle", "done"}) =>
       \A k \in Keys : buildLocks[k] = 0

C20_Witness ==
  /\ \A c \in Callers : Done(c)
  /\ \E b \in Callers : path[b] = "build" /\ Failed(b)
  /\ \E b, a \in Callers : path[b] = "build" /\ Ok(b) /\ a \in AttachedTo(b)
  /\ \A k \in Keys : buildLocks[k] = 0


\* call c found the binary at the second lookup, inside its build closure
LockHit(c) == path[c] = "lockhit"

\* the record another instance commits for key k
ForeignRecord(k) == Success(PreloadedWasm(k).data, PreloadedAbi(k).data)

\* C21: a call whose second lookup, inside the lock, finds the binary that
\* another instance committed after the call's first lookup missed spawns no
\* cargo process, creates no project files and returns the cached record.
C21_DoubleCheck ==
  \A c \in Callers :
    LockHit(c) =>
      /\ cargoRuns[c] = 0
      /\ pc[c] \in {"lockReadWasm", "lockReadAbi", "done"}
      /\ Done(c) => result[c] = ForeignRecord(key(c))

\* call c has found the binary of its key and no ABI file beside it: at the
\* first lookup (the backfill is under way) or inside the lock (the ABI file
\* is about to be read)
MissingAbiHit(c) ==
  \/ pc[c] \in {"backfillOpen", "backfillData"}
  \/ pc[c] = "lockReadAbi" /\ ~abiFile[key(c)].exists

\* C22: a call that found the binary of its key without the ABI file, at
\* either lookup, and whose own write does not fail ends in success with the
\* binary it read and the ABI computed from its source, has stored that ABI
\* as the key's ABI file and has spawned no cargo process.
C22_AbiBackfill ==
  [][ \A c \in Callers :
        (MissingAbiHit(c) /\ pc'[c] = "done" /\ c \notin hist'.ioFailed) =>
          /\ result'[c] = Success(wasmBuffer[c], abiOf(c))
          /\ abiFile'[key(c)] = File(abiOf(c))
          /\ cargoRuns'[c] = 0
    ]_vars

(***************************************************************************)
(* The normalization the hash is specified to use, line by line.           *)
(***************************************************************************)
\* CR occurs in t only as the first character of a CRLF
CROnlyInCRLF(t) ==
  \A i \in 1..Len(t) :
    t[i] = CR => (IF i < Len(t) THEN t[i + 1] = LF ELSE FALSE)

\* the lines of t, a line ending at each LF or CRLF
RECURSIVE RefLines(_, _)
RefLines(t, line) ==
  IF t = <<>> THEN <<line>>
  ELSE IF t[1] = LF THEN <<line>> \o RefLines(Tail(t), <<>>)
  ELSE IF Len(t) >= 2 /\ t[1] = CR /\ t[2] = LF
       THEN <<line>> \o RefLines(SubSeq(t, 3, Len(t)), <<>>)
  ELSE RefLines(Tail(t), Append(line, t[1]))

\* a line without the spaces and tabs at its end
RECURSIVE RefStripLine(_)
RefStripLine(l) ==
  IF l # <<>> /\ l[Len(l)] \in {SP, TAB}
  THEN RefStripLine(SubSeq(l, 1, Len(l) - 1)) ELSE l

\* of each run of blank lines one is kept
RECURSIVE RefCollapse(_)
RefCollapse(ls) ==
  IF ls = <<>> THEN <<>>
  ELSE IF Len(ls) >= 2 /\ ls[1] = <<>> /\ ls[2] = <<>>
       THEN RefCollapse(Tail(ls))
       ELSE <<ls[1]>> \o RefCollapse(Tail(ls))

\* the blank lines before the first and after the last line are dropped
RECURSIVE RefTrimLines(_)
RefTrimLines(ls) ==
  IF ls = <<>> THEN <<>>
  ELSE IF ls[1] = <<>> THEN RefTrimLines(Tail(ls))
  ELSE IF ls[Len(ls)] = <<>> THEN RefTrimLines(SubSeq(ls, 1, Len(ls) - 1))
  ELSE ls

\* the lines joined by LF
RECURSIVE RefJoin(_)
RefJoin(ls) ==
  IF ls = <<>> THEN <<>>
  ELSE IF Len(ls) = 1 THEN ls[1]
  ELSE ls[1] \o <<LF>> \o RefJoin(Tail(ls))

ReferenceNormalized(t) ==
  LET lines == RefLines(t, <<>>)
      stripped == [i \in 1..Len(lines) |-> RefStripLine(lines[i])]
  IN RefJoin(RefTrimLines(RefCollapse(stripped)))

\* C23: the text stableHash digests for a source whose only CRs are those
\* of CRLF line endings is the source with LF line endings, no space or tab
\* at the end of a line, one blank line for each run of blank lines, and no
\* blank line before the first or after the last line, the indentation of
\* the first line kept.
C23_ReferenceNormalization ==
  (fnCall.how = "normalized" /\ fnCall.edits = 1 /\ CROnlyInCRLF(fnCall.source))
    => fnCall.text = ReferenceNormalized(fnCall.source)

\* the binary the cache is to hold for the key of call c: the one cargo makes
\* of the call's source, or the one of the record the cache started with
CompleteBinary(c) ==
  IF key(c) \in hist.preloaded THEN PreloadedWasm(key(c)).data
  ELSE CargoOutput(src[c])

\* a build for the key of call c has returned success
BuildSucceeded(c) ==
  \E b \in Callers : key(b) = key(c) /\ path[b] = "build" /\ Ok(b)

\* C28: a call that returns success returns the complete binary of its key,
\* and no call that found the binary in the cache fails, its own writes
\* succeeding, when the build for its key succeeds.
C28_CompleteBinary ==
  \A c \in Callers :
    /\ Ok(c) => result[c].wasm = CompleteBinary(c)
    /\ (Failed(c) /\ path[c] = "hit" /\ c \notin hist.ioFailed)
         => ~BuildSucceeded(c)

\* the calls whose job the queue has started and that have not returned
PastAdmission == { c \in Callers : pc[c] \notin {"idle", "queued", "done"} }

\* C29: the calls past admission and not yet returned, whether building,
\* attached to a build or serving a cache hit, are the jobs the queue counts
\* as running, at most 2, and a call is queued only while 2 are running.
C29_TwoPastAdmission ==
  /\ Cardinality(PastAdmission) = pending
  /\ Cardinality(PastAdmission) <= 2
  /\ (\E c \in Callers : pc[c] = "queued") => Cardinality(PastAdmission) = 2

C29_Witness ==
  \E b, a, h \in Callers :
    /\ Building(b) /\ pc[b] = "cargo"
    /\ pc[a] = "attached" /\ waitOn[a] = b
    /\ pc[h] = "queued" /\ key(h) \in hist.preloaded

\* request r holds a project directory: from the moment projectPath is set
\* until the response is sent
Holding(r) == reqPc[r] \in {"write", "cargo", "read", "reset", "rm"}

\* C27: the directory an in-flight request holds is not in projectPool, and
\* no two in-flight requests hold the same directory.
C27_OneRequestPerProject ==
  /\ \A r \in Requests : Holding(r) => projectPath[r] \notin PoolPaths
  /\ \A r, q \in Requests :
       (Holding(r) /\ Holding(q) /\ r # q) => projectPath[r] # projectPath[q]

\* C30: projectPool never holds more than PROJECT_POOL_SIZE directories.
C30_PoolBounded == Len(projectPool) <= PROJECT_POOL_SIZE

\* the toolchain invocations under way for different keys
ConcurrentBuilds ==
  { <<c, d>> \in RunningCargo \X RunningCargo : key(c) # key(d) }

\* C24: two cargo processes that run at once for different keys were given
\* target directories and output file names that make different output
\* paths.
C24_DistinctOutputPaths ==
  \A cd \in ConcurrentBuilds :
    OutputPath(CachedTargetDir(cd[1])) # OutputPath(CachedTargetDir(cd[2]))

\* sequence p begins with sequence d
Inside(p, d) == Len(p) >= Len(d) /\ SubSeq(p, 1, Len(d)) = d

\* C25: when cargo has exited 0 and its binary is in the directory it was
\* given as CARGO_TARGET_DIR, the path compile reads the binary from lies
\* inside that directory and the read does not fail.
C25_ReadBackInsideTarget ==
  [][ \A c \in Callers :
        ( /\ pc[c] = "readOut" /\ pc'[c] # "readOut"
          /\ CachedFileAt(OutputPath(CachedTargetDir(c))).exists )
        => /\ Inside(CachedWasmPath(c), CachedTargetDir(c))
           /\ pc'[c] # "done"
    ]_vars

\* call c is using the workspace of its key: its project files are written
\* and the cargo process it runs there has not closed
UsingWorkspace(c) == pc[c] \in {"spawn", "cargo", "hung"}

\* C26: a call writes the project files, starts cargo or removes the
\* workspace only while no other call is using the workspace of the same
\* key.
C26_WorkspaceOwnedByOne ==
  [][ \A c \in Callers :
        (pc[c] \in {"createProject", "spawn", "finally"} /\ pc'[c] # pc[c]) =>
          ~\E d \in Callers \ {c} : key(d) = key(c) /\ UsingWorkspace(d)
    ]_vars

\* the calls made so far whose key is k
CallsFor(k) == { c \in Callers : Called(c) /\ key(c) = k }

\* C31: when every call made for key k was served from the artifact cache
\* and has returned, and no build for k is in flight, there is no workspace
\* directory build_<k>.
C31_HitLeavesBuildRoot ==
  \A k \in Keys :
    ( /\ CallsFor(k) # {}
      /\ \A c \in CallsFor(k) : Done(c) /\ path[c] = "hit"
      /\ buildLocks[k] = 0 )
    => ~workspace[k].dir


=============================================================================
